---- MODULE Spec2Model ----
(***************************************************************************)
(* Position resolution engine of the trailer bot.                          *)
(*                                                                         *)
(* Two builds of the service live in the repository:                       *)
(*   "kv"  : src/main.ts          (Deno KV backed cache, soft + hard TTL)   *)
(*   "mem" : src/unnamed/part_000 (in-process Map cache, one TTL)           *)
(* The variable build says which of the two is running.  Every request is  *)
(* one run of the Deno.serve handler; handlers interleave at their awaits. *)
(* Strings that the code inspects (error messages, inbound text) are       *)
(* sequences of one-character strings, so that String.includes, trim and   *)
(* the asset-id regular expression are computed and not assumed.           *)
(***************************************************************************)
EXTENDS Integers, Sequences, FiniteSets, TLC

\* ------------------------------------------------------------------ bounds
\* number of webhook requests the server handles at the same time
NumReqs == 2
\* number of instants the clock passes through in one behaviour
MaxInstants == 5

\* --------------------------------------------------------- program constants
\* Times are counted in seconds, not milliseconds: the 30 days of MAX_STALE_MS
\* are 2592000000 ms, beyond the 32-bit integers of the model checker.  Every
\* TTL of the source is a whole number of seconds, so each is its source value
\* divided by 1000.
SKYBITZ_MIN_INTERVAL_MS == 10 * 60
MAX_STALE_MS == 30 * 24 * 60 * 60
CACHE_TTL_MS == 60

Builds == {"kv", "mem"}
EnvKeys == {"TG_BOT_TOKEN", "SKYBITZ_BASE_URL", "SKYBITZ_USER", "SKYBITZ_PASS"}

\* ------------------------------------------------------------------ strings
Digit(d) == <<"0", "1", "2", "3", "4", "5", "6", "7", "8", "9">>[d + 1]

RECURSIVE NumToString(_)
\* `${n}` for a non-negative integer n
NumToString(n) == IF n < 10 THEN <<Digit(n)>> ELSE NumToString(n \div 10) \o <<Digit(n % 10)>>

\* String.prototype.includes
Includes(hay, needle) ==
    \E i \in 1..(Len(hay) - Len(needle) + 1) : SubSeq(hay, i, i + Len(needle) - 1) = needle

StrSkyBitzError == <<"S", "k", "y", "B", "i", "t", "z", " ", "e", "r", "r", "o", "r", " ">>
StrSkyBitzHttp == <<"S", "k", "y", "B", "i", "t", "z", " ", "H", "T", "T", "P", " ">>
StrMissingEnv == <<"M", "i", "s", "s", "i", "n", "g", " ", "e", "n", "v", ":", " ">>
\* the message of the TypeError a failed fetch() rejects with
StrTransport == <<"e", "r", "r", "o", "r", " ", "s", "e", "n", "d", "i", "n", "g", " ", "r", "e", "q", "u", "e", "s", "t">>
\* the message of the SyntaxError res.json() rejects with
StrSyntax == <<"U", "n", "e", "x", "p", "e", "c", "t", "e", "d", " ", "t", "o", "k", "e", "n">>
\* the literal the catch block of main.ts searches for
StrRateLimitNeedle == StrSkyBitzError \o <<"9", "7">>

\* ------------------------------------------------------------- JSON values
JNum(n) == [t |-> "number", v |-> n]
JStr == [t |-> "string", v |-> 0]
JNone == [t |-> "undefined", v |-> 0]

\* one element of skybitz.gls
Rec(la, lo) == [latitude |-> la, longitude |-> lo]
NoRec == Rec(JNone, JNone)

\* skybitz.gls: an array, a single object, or absent
GlsArray(items) == [kind |-> "array", items |-> items]
GlsObject(r) == [kind |-> "object", items |-> <<r>>]
GlsNone == [kind |-> "undefined", items |-> <<>>]

\* What the provider does with one query: net = "fail" is a rejected fetch(),
\* body = "invalid" is a body res.json() cannot parse.
Response(net, status, body, error, gls) ==
    [net |-> net, status |-> status, body |-> body, error |-> error, gls |-> gls]

\* --------------------------------------------------------------- positions
\* type Pos = { ts, lat, lon }; has = FALSE is null / undefined
Pos(ts, lat, lon) == [has |-> TRUE, ts |-> ts, lat |-> lat, lon |-> lon]
NoPos == [has |-> FALSE, ts |-> 0, lat |-> 0, lon |-> 0]

\* ------------------------------------------------------------------ adapter
\* Response.ok
ResOk(resp) == resp.status >= 200 /\ resp.status <= 299

\* const err = data?.skybitz?.error ?? 0
ErrOf(resp) == IF resp.error.t = "number" THEN resp.error.v ELSE 0

\* if (err && err !== 0)
ErrTruthy(err) == err # 0

\* mutant: the last element of a collection is taken
RecOfLast(gls) ==
    IF gls.kind = "array"
    THEN (IF Len(gls.items) >= 1 THEN gls.items[Len(gls.items)] ELSE NoRec)
    ELSE IF gls.kind = "object" THEN gls.items[1] ELSE NoRec

\* const rec = Array.isArray(gls) ? gls[0] : gls
RecOf(gls) ==
    IF gls.kind = "array"
    THEN (IF Len(gls.items) >= 1 THEN gls.items[1] ELSE NoRec)
    ELSE IF gls.kind = "object" THEN gls.items[1] ELSE NoRec

\* typeof lat !== "number" || typeof lon !== "number"
NotNumeric(rec) == rec.latitude.t # "number" \/ rec.longitude.t # "number"

Thrown(msg) == [tag |-> "throw", pos |-> NoPos, msg |-> msg]
Returned(pos) == [tag |-> IF pos.has THEN "ok" ELSE "null", pos |-> pos, msg |-> <<>>]

\* Body of fetchLatestFromSkybitz (main.ts) and of the upstream part of
\* getLatestPosition (part_000) from the await of fetch() on; ts is the
\* timestamp the build puts in the Pos it returns.
fetchLatestFromSkybitz(resp, ts) ==
    IF resp.net = "fail" THEN Thrown(StrTransport)
    ELSE IF ~ResOk(resp) THEN Thrown(StrSkyBitzHttp \o NumToString(resp.status))
    ELSE IF resp.body = "invalid" THEN Thrown(StrSyntax)
    ELSE IF ErrTruthy(ErrOf(resp)) THEN Thrown(StrSkyBitzError \o NumToString(ErrOf(resp)))
    ELSE IF NotNumeric(RecOf(resp.gls)) THEN Returned(NoPos)
    ELSE Returned(Pos(ts, RecOf(resp.gls).latitude.v, RecOf(resp.gls).longitude.v))

\* msg.includes("SkyBitz error 97")
IsRateLimitMsg(msg) == Includes(msg, StrRateLimitNeedle)

\* -------------------------------------------------------------- input gate
Upper == {"A", "B", "C", "D", "E", "F", "G", "H", "I", "J", "K", "L", "M",
          "N", "O", "P", "Q", "R", "S", "T", "U", "V", "W", "X", "Y", "Z"}
Lower == {"a", "b", "c", "d", "e", "f", "g", "h", "i", "j", "k", "l", "m",
          "n", "o", "p", "q", "r", "s", "t", "u", "v", "w", "x", "y", "z"}
Digits == {"0", "1", "2", "3", "4", "5", "6", "7", "8", "9"}
\* [A-Za-z0-9]
AlNum == Upper \cup Lower \cup Digits
\* [A-Za-z0-9_-]
AlNumDash == AlNum \cup {"_", "-"}
WhiteSpace == {" "}

RECURSIVE TrimStart(_)
TrimStart(s) == IF Len(s) > 0 /\ Head(s) \in WhiteSpace THEN TrimStart(Tail(s)) ELSE s

RECURSIVE TrimEnd(_)
TrimEnd(s) ==
    IF Len(s) > 0 /\ s[Len(s)] \in WhiteSpace THEN TrimEnd(SubSeq(s, 1, Len(s) - 1)) ELSE s

\* String.prototype.trim
Trim(s) == TrimEnd(TrimStart(s))

\* /^[A-Za-z0-9][A-Za-z0-9_-]*$/.test(t)
MatchesAssetRe(t) ==
    /\ Len(t) >= 1
    /\ t[1] \in AlNum
    /\ \A i \in 2..Len(t) : t[i] \in AlNumDash

\* mutant: the length of the identifier is not checked
sanitizeAssetIdAnyLength(s) == IF ~MatchesAssetRe(Trim(s)) THEN <<>> ELSE Trim(s)

\* sanitizeAssetId: the empty sequence stands for null (a valid id is never empty)
sanitizeAssetId(s) ==
    IF Len(Trim(s)) < 2 \/ Len(Trim(s)) > 32 THEN <<>>
    ELSE IF ~MatchesAssetRe(Trim(s)) THEN <<>>
    ELSE Trim(s)

\* text.startsWith("/")
IsCommand(text) == Len(text) > 0 /\ text[1] = "/"

\* ---------------------------------------------------------------- env
KeyName(k) ==
    CASE k = "TG_BOT_TOKEN" -> <<"T", "G", "_", "B", "O", "T", "_", "T", "O", "K", "E", "N">>
      [] k = "SKYBITZ_BASE_URL" -> <<"S", "K", "Y", "B", "I", "T", "Z", "_", "B", "A", "S", "E", "_", "U", "R", "L">>
      [] k = "SKYBITZ_USER" -> <<"S", "K", "Y", "B", "I", "T", "Z", "_", "U", "S", "E", "R">>
      [] k = "SKYBITZ_PASS" -> <<"S", "K", "Y", "B", "I", "T", "Z", "_", "P", "A", "S", "S">>

\* the order in which ensureEnv pushes the missing keys
EnvOrder == <<"TG_BOT_TOKEN", "SKYBITZ_BASE_URL", "SKYBITZ_USER", "SKYBITZ_PASS">>

RECURSIVE JoinMissing(_, _)
\* miss.join(", ") over the keys of EnvOrder from index i on that e lacks
JoinMissing(e, i) ==
    IF i > Len(EnvOrder) THEN <<>>
    ELSE IF EnvOrder[i] \in e THEN JoinMissing(e, i + 1)
    ELSE KeyName(EnvOrder[i])
         \o (IF \E j \in (i + 1)..Len(EnvOrder) : EnvOrder[j] \notin e THEN <<",", " ">> ELSE <<>>)
         \o JoinMissing(e, i + 1)

\* ensureEnv: e is the set of keys that are set; TRUE when it does not throw
EnvComplete(e) == EnvKeys \subseteq e
ensureEnvMsg(e) == StrMissingEnv \o JoinMissing(e, 1)

\* ------------------------------------------------------- inputs of the model
Reqs == 1..NumReqs

TxtLong == [i \in 1..33 |-> "A"]
\* inbound message texts: the asset id H1, bare and padded, and texts the gate
\* rejects
Texts == {<<"H", "1">>, <<" ", "H", "1", " ">>,
          <<>>, <<" ">>, <<"/", "H", "1">>, <<"H">>, <<"_", "1">>, <<"H", "!">>, TxtLong}
\* an asset nobody asks for in a behaviour, whose position Deno KV may hold
OtherAsset == <<"T", "-", "2">>
\* upd.message?.chat?.id is a non-zero number (chat = TRUE) or absent / 0
Inputs == [chat : BOOLEAN, text : Texts]

AssetIds == ({sanitizeAssetId(t) : t \in Texts} \ {<<>>}) \cup {OtherAsset}

\* provider answers
\* records: two fixes, a fix off the globe, and two with a coordinate that is
\* no number
Recs == {Rec(JNum(34), JNum(-118)), Rec(JNum(35), JNum(-117)), Rec(JNum(91), JNum(181)),
         Rec(JStr, JNum(-118)), Rec(JNum(34), JNone)}
\* the second record of a two-record collection: a fix, or one that is none
TailRecs == {Rec(JNum(35), JNum(-117)), Rec(JStr, JNum(-118))}
GlsVals ==
    {GlsNone} \cup {GlsObject(r) : r \in Recs}
    \cup {GlsArray(<<>>)} \cup {GlsArray(<<r>>) : r \in Recs}
    \cup {GlsArray(<<r, q>>) : r \in Recs, q \in TailRecs}
ErrCodes == {9, 97, 970}
Responses ==
    {Response("fail", 0, "json", JNone, GlsNone),
     Response("ok", 503, "json", JNone, GlsNone),
     Response("ok", 200, "invalid", JNone, GlsNone)}
    \cup {Response("ok", 200, "json", JNum(e), GlsNone) : e \in ErrCodes}
    \cup {Response("ok", 200, "json", JNum(0), g) : g \in {GlsNone, GlsObject(Rec(JNum(34), JNum(-118)))}}
    \cup {Response("ok", 200, "json", JNone, g) : g \in GlsVals}

\* sets of configured keys: everything set, or exactly one key missing
EnvChoices == {EnvKeys} \cup {EnvKeys \ {k} : k \in EnvKeys}

\* -------------------------------------------------------------------- state
VARIABLES
    build,   \* which of the two source files is deployed
    env,     \* the environment keys that are set
    tick,    \* the instant the wall clock is at (Date.now() is Instant(tick))
    cache,   \* Deno KV under ["pos", assetId] (kv) / the Map `cache` (mem)
    req,     \* per request: the handler's position and locals
    probe    \* one provider answer and what the adapter makes of it (SpecAdapter)

vars == <<build, env, tick, cache, req, probe>>

\* The wall clock moves through the instants at which an entry stored at a
\* multiple of the hard TTL is just inside and just beyond each TTL:
\* 0, soft - 1, soft, hard - 1, hard, hard + soft - 1, ...  (part_000 has no
\* hard TTL; twice its TTL takes that place).
SoftTtl == IF build = "kv" THEN SKYBITZ_MIN_INTERVAL_MS ELSE CACHE_TTL_MS
Period == IF build = "kv" THEN MAX_STALE_MS ELSE 2 * CACHE_TTL_MS
Offsets == <<0, SoftTtl - 1, SoftTtl, Period - 1>>
Instant(i) == ((i - 1) \div 4) * Period + Offsets[((i - 1) % 4) + 1]

\* Date.now()
clock == Instant(tick)

\* A request that has not arrived.  Locals of the handler: assetId, cached, now,
\* fresh, msg.  History: out (what the handler answered), branch (where it
\* answered), served (the position it answered with), sent (whether a Telegram
\* call was issued), adapter (how the upstream call ended), found (whether
\* the first cache read of the request found an entry).
IdleReq ==
    [pc |-> "idle", assetId |-> <<>>, cached |-> NoPos, now |-> 0, fresh |-> NoPos,
     msg |-> <<>>, out |-> "none", branch |-> "none", served |-> NoPos, sent |-> FALSE,
     adapter |-> "none", found |-> FALSE]

\* tgSendMessage / tgSendPhoto of main.ts return without a call when the token is unset
TgSends(e) == "TG_BOT_TOKEN" \in e

\* the handler answered: locals are dropped (as they are, in the actions
\* below, once no line of the handler reads them any more)
Finish(q, out, branch, served, sends) ==
    [q EXCEPT !.pc = "done", !.cached = NoPos, !.now = 0, !.fresh = NoPos, !.msg = <<>>,
              !.out = out, !.branch = branch, !.served = served, !.sent = sends]

\* mutant: the handler has no catch and the exception leaves it
KvUncaught(q, msg) == Finish(q, "exception", "none", NoPos, FALSE)

\* main.ts, try { ... } catch (e) { const msg = String(e?.message ?? e): an
\* exception thrown in the try block is taken to the catch block
KvCaught(q, msg) == [q EXCEPT !.pc = "catch", !.cached = NoPos, !.now = 0, !.msg = msg]

\* mutant: the store stamps an entry that replaces another one itself, one
\* unit after the entry replaced
kvSetPosStamped(c, assetId, pos) ==
    [c EXCEPT ![assetId] = IF c[assetId].has THEN [pos EXCEPT !.ts = c[assetId].ts + 1] ELSE pos]

\* mutant: the key does not depend on the asset, every entry is the one written
kvSetPosAnyKey(c, assetId, pos) == [k \in DOMAIN c |-> pos]

\* mutant: the write is lost
kvSetPosLost(c, assetId, pos) == c

\* kv.set(posKey(assetId), pos) / cache.set(assetId, out)
kvSetPos(c, assetId, pos) == [c EXCEPT ![assetId] = pos]

\* mutant: no entry ever counts as fresh
SoftFreshNever(cached, now, ttl) == FALSE

\* mutant: the soft TTL ends one unit early
SoftFreshOffByOne(cached, now, ttl) == cached.has /\ now - cached.ts < ttl - 1

\* cached && now - cached.ts < ttl
SoftFresh(cached, now, ttl) == cached.has /\ now - cached.ts < ttl
\* cached && now - cached.ts < MAX_STALE_MS
HardFresh(cached, now) == cached.has /\ now - cached.ts < MAX_STALE_MS

\* what Deno KV may hold when the process starts: nothing, or positions an
\* earlier deployment stored at time 0
StoredAtStart == [a \in AssetIds |-> Pos(0, 34, -118)]
EmptyCache == [a \in AssetIds |-> NoPos]

\* the adapter has been given nothing
NoProbe ==
    [stage |-> "none", resp |-> Response("fail", 0, "json", JNone, GlsNone), ts |-> 0,
     res |-> Returned(NoPos), class |-> "none"]

TypeOK ==
    /\ build \in Builds
    /\ env \in EnvChoices
    /\ tick \in 1..MaxInstants
    /\ DOMAIN cache = AssetIds
    /\ DOMAIN req = Reqs
    /\ probe.stage \in {"none", "input", "done"}

Init ==
    /\ build \in Builds
    /\ env \in EnvChoices
    /\ tick = 1
    /\ cache \in (IF build = "kv" THEN {EmptyCache, StoredAtStart} ELSE {EmptyCache})
    /\ req = [r \in Reqs |-> IdleReq]
    /\ probe = NoProbe

\* a request takes the lowest free slot
MayArrive(r) == req[r].pc = "idle" /\ \A q \in 1..(r - 1) : req[q].pc # "idle"

InFlight(r) == req[r].pc \notin {"idle", "done"}

\* ------------------------------------------------------------ main.ts (kv)
\* lines 39-71: parse, gate, first KV read (the step is the moment kv.get
\* answers), soft-fresh hit, or ensureEnv and the issue of the upstream query
KvReceive(r, inp) ==
    /\ build = "kv"
    /\ MayArrive(r)
    /\ LET a == sanitizeAssetId(Trim(inp.text))
           q == req[r]
       IN
       req' = [req EXCEPT ![r] =
         IF ~inp.chat \/ Len(Trim(inp.text)) = 0 \/ IsCommand(Trim(inp.text)) \/ a = <<>>
         THEN Finish(q, "ignored", "gate", NoPos, FALSE)
         ELSE IF SoftFresh(cache[a], clock, SKYBITZ_MIN_INTERVAL_MS)
         THEN Finish([q EXCEPT !.assetId = a, !.found = TRUE], "pos", "soft", cache[a],
                     TgSends(env))
         ELSE IF ~EnvComplete(env)
         THEN KvCaught([q EXCEPT !.assetId = a, !.found = cache[a].has], ensureEnvMsg(env))
         ELSE [q EXCEPT !.pc = "fetch", !.assetId = a, !.found = cache[a].has,
                        !.cached = cache[a], !.now = clock]]
    /\ UNCHANGED <<probe, build, env, tick, cache>>

\* lines 71-85 and 129-155: the upstream query ends
KvFetchReturn(r, resp) ==
    /\ build = "kv"
    /\ req[r].pc = "fetch"
    /\ LET res == fetchLatestFromSkybitz(resp, clock) IN
       req' = [req EXCEPT ![r] =
         IF res.tag = "throw"
         THEN KvCaught([req[r] EXCEPT !.adapter = "throw"], res.msg)
         ELSE IF res.tag = "ok"
         THEN [req[r] EXCEPT !.pc = "kvSet", !.cached = NoPos, !.now = 0,
                             !.fresh = res.pos, !.adapter = "ok"]
         ELSE IF HardFresh(req[r].cached, req[r].now)
         THEN Finish([req[r] EXCEPT !.adapter = "null"], "pos", "empty", req[r].cached,
                     TgSends(env))
         ELSE Finish([req[r] EXCEPT !.adapter = "null"], "nodata", "empty", NoPos,
                     TgSends(env))]
    /\ UNCHANGED <<probe, build, env, tick, cache>>

\* lines 73-75, 123-125: the KV write completes, then the position is sent
KvSet(r) ==
    /\ build = "kv"
    /\ req[r].pc = "kvSet"
    /\ cache' = kvSetPos(cache, req[r].assetId, req[r].fresh)
    /\ req' = [req EXCEPT ![r] = Finish(req[r], "pos", "fresh", req[r].fresh, TgSends(env))]
    /\ UNCHANGED <<probe, build, env, tick>>

\* lines 86-108: the catch block; the step is the moment its kv.get answers
KvCatch(r) ==
    /\ build = "kv"
    /\ req[r].pc = "catch"
    /\ LET cached == cache[req[r].assetId] IN
       req' = [req EXCEPT ![r] =
         IF HardFresh(cached, clock)
         THEN Finish(req[r], "pos", "catch", cached, TgSends(env))
         ELSE IF IsRateLimitMsg(req[r].msg)
         THEN Finish(req[r], "ratelimited", "catch", NoPos, TgSends(env))
         ELSE Finish(req[r], "error", "catch", NoPos, TgSends(env))]
    /\ UNCHANGED <<probe, build, env, tick, cache>>

\* --------------------------------------------------------- part_000 (mem)
\* lines 17-20: mustEnv throws while the module loads, and nothing is served
MemLoaded == EnvComplete(env)

\* lines 30-48 and 69-85: parse, gate, cache look-up, issue of the upstream query
MemReceive(r, inp) ==
    /\ build = "mem"
    /\ MemLoaded
    /\ MayArrive(r)
    /\ LET a == sanitizeAssetId(Trim(inp.text))
           q == req[r]
       IN
       req' = [req EXCEPT ![r] =
         IF ~inp.chat \/ Len(Trim(inp.text)) = 0
         THEN Finish(q, "ignored", "gate", NoPos, FALSE)
         ELSE IF a = <<>>
         THEN Finish(q, "hint", "gate", NoPos, TRUE)
         ELSE IF SoftFresh(cache[a], clock, CACHE_TTL_MS)
         THEN Finish([q EXCEPT !.assetId = a, !.found = TRUE], "pos", "soft", cache[a], TRUE)
         ELSE [q EXCEPT !.pc = "fetch", !.assetId = a, !.found = cache[a].has,
                        !.cached = cache[a], !.now = clock]]
    /\ UNCHANGED <<probe, build, env, tick, cache>>

\* lines 48-62 and 83-108: the upstream query ends
MemFetchReturn(r, resp) ==
    /\ build = "mem"
    /\ req[r].pc = "fetch"
    /\ LET res == fetchLatestFromSkybitz(resp, req[r].now) IN
       /\ cache' = IF res.tag = "ok" THEN kvSetPos(cache, req[r].assetId, res.pos) ELSE cache
       /\ req' = [req EXCEPT ![r] =
            IF res.tag = "throw"
            THEN Finish([req[r] EXCEPT !.adapter = "throw"], "error", "catch", NoPos, TRUE)
            ELSE IF res.tag = "ok"
            THEN Finish([req[r] EXCEPT !.adapter = "ok"], "pos", "fresh", res.pos, TRUE)
            ELSE Finish([req[r] EXCEPT !.adapter = "null"], "nodata", "empty", NoPos, TRUE)]
    /\ UNCHANGED <<probe, build, env, tick>>

\* ------------------------------------------------------------------- time
\* return new Response("OK"): the handler is over and its slot is free again
Respond(r) ==
    /\ req[r].pc = "done"
    /\ req' = [req EXCEPT ![r] = IdleReq]
    /\ UNCHANGED <<probe, build, env, tick, cache>>

Tick ==
    /\ tick < MaxInstants
    /\ tick' = tick + 1
    /\ UNCHANGED <<probe, build, env, cache, req>>

Next ==
    \/ \E r \in Reqs, inp \in Inputs : KvReceive(r, inp)
    \/ \E r \in Reqs, resp \in Responses : KvFetchReturn(r, resp)
    \/ \E r \in Reqs : KvSet(r)
    \/ \E r \in Reqs : KvCatch(r)
    \/ \E r \in Reqs, inp \in Inputs : MemReceive(r, inp)
    \/ \E r \in Reqs, resp \in Responses : MemFetchReturn(r, resp)
    \/ \E r \in Reqs : Respond(r)
    \/ Tick

Spec == Init /\ [][Next]_vars

\* ------------------------------------------------ the adapter, on its own
\* The outcome of one upstream query as main.ts tells the outcomes apart:
\* a position, nothing usable, or a throw that the catch block of the handler
\* takes for a rate limit or for any other failure.
Classify(res) ==
    IF res.tag = "ok" THEN "Ok"
    ELSE IF res.tag = "null" THEN "NoData"
    ELSE IF IsRateLimitMsg(res.msg) THEN "RateLimited"
    ELSE "Unavailable"

\* provider answers for the adapter on its own: more codes, more coordinates
JNull == [t |-> "null", v |-> 0]
AllLats == {JNum(-91), JNum(-90), JNum(34), JNum(90), JNum(91), JStr, JNull, JNone}
AllLons == {JNum(-181), JNum(-118), JNum(180), JNum(181), JStr, JNone}
AllRecs == {Rec(la, lo) : la \in AllLats, lo \in AllLons}
\* collections are probed with a first record of every kind and a second
\* record that is either usable or not
SecondRecs == {Rec(JNum(34), JNum(-118)), Rec(JNum(91), JNum(181)), NoRec}
AllGls ==
    {GlsNone, GlsArray(<<>>)} \cup {GlsObject(r) : r \in AllRecs}
    \cup {GlsArray(<<r>>) : r \in AllRecs}
    \cup {GlsArray(<<r, q>>) : r \in AllRecs, q \in SecondRecs}
AllErrors == {JNone, JNum(0), JNum(9), JNum(97), JNum(197), JNum(970), JNum(979), JNum(1097)}
AllStatuses == {200, 204, 404, 429, 500}
AllResponses ==
    {Response("fail", 0, "json", JNone, GlsNone)}
    \cup {Response("ok", st, "invalid", JNone, GlsNone) : st \in AllStatuses}
    \cup {Response("ok", st, "json", e, g) :
            st \in AllStatuses, e \in AllErrors, g \in {GlsNone, GlsObject(Rec(JNum(34), JNum(-118)))}}
    \cup {Response("ok", 200, "json", e, g) : e \in {JNone, JNum(0)}, g \in AllGls}

InitAdapter ==
    /\ build = "kv"
    /\ env = EnvKeys
    /\ tick = 1
    /\ cache = EmptyCache
    /\ req = [r \in Reqs |-> IdleReq]
    /\ \E resp \in AllResponses, ts \in {0, 7} :
         probe = [NoProbe EXCEPT !.stage = "input", !.resp = resp, !.ts = ts]

\* one call of fetchLatestFromSkybitz and the handler's reading of its outcome
Query ==
    /\ probe.stage = "input"
    /\ probe' = [probe EXCEPT !.stage = "done",
                              !.res = fetchLatestFromSkybitz(probe.resp, probe.ts),
                              !.class = Classify(fetchLatestFromSkybitz(probe.resp, probe.ts))]
    /\ UNCHANGED <<build, env, tick, cache, req>>

NextAdapter == Query

SpecAdapter == InitAdapter /\ [][NextAdapter]_vars

\* -------------------------------------------------- the cache, on its own
\* what the cache may hold before a write, and what is written
PutEntries == {NoPos, Pos(0, 34, -118), Pos(600, 35, -117)}
PutCaches == [AssetIds -> PutEntries]
PutPositions == {Pos(0, 34, -118), Pos(600, 35, -117), Pos(600, 34, -118), Pos(1200, 91, 181)}

InitPut ==
    /\ build \in Builds
    /\ env = EnvKeys
    /\ tick = 1
    /\ cache \in PutCaches
    /\ req = [r \in Reqs |-> IdleReq]
    /\ \E a \in AssetIds, pos \in PutPositions :
         probe = [stage |-> "input", assetId |-> a, pos |-> pos, before |-> cache, once |-> cache]

\* kvSetPos(assetId, pos) / cache.set(assetId, out), the first time
PutFirst ==
    /\ probe.stage = "input"
    /\ cache' = kvSetPos(cache, probe.assetId, probe.pos)
    /\ probe' = [probe EXCEPT !.stage = "once", !.once = cache']
    /\ UNCHANGED <<build, env, tick, req>>

\* the same write again
PutAgain ==
    /\ probe.stage = "once"
    /\ cache' = kvSetPos(cache, probe.assetId, probe.pos)
    /\ probe' = [probe EXCEPT !.stage = "twice"]
    /\ UNCHANGED <<build, env, tick, req>>

NextPut == PutFirst \/ PutAgain

SpecPut == InitPut /\ [][NextPut]_vars

\* ---------------------------------------------------- the map image box
\* Latitudes are decimal numbers with eight fractional digits: sign, whole
\* degrees, and the fraction in units of 1e-8 degree.
Lat(neg, deg, frac) == [neg |-> neg, deg |-> deg, frac |-> frac]

\* a < b on latitudes
LatLess(a, b) ==
    IF a.neg # b.neg THEN a.neg /\ (a.deg # 0 \/ a.frac # 0 \/ b.deg # 0 \/ b.frac # 0)
    ELSE IF a.neg THEN (b.deg < a.deg \/ (b.deg = a.deg /\ b.frac < a.frac))
    ELSE (a.deg < b.deg \/ (a.deg = b.deg /\ a.frac < b.frac))

\* 85.05112878
ClampDeg == 85
ClampFrac == 5112878
ClampLat == Lat(FALSE, ClampDeg, ClampFrac)

\* Math.max(Math.min(lat, 85.05112878), -85.05112878)
ClampedLat(lat) ==
    LET lo == IF LatLess(ClampLat, lat) THEN ClampLat ELSE lat
    IN IF LatLess(lo, [ClampLat EXCEPT !.neg = TRUE]) THEN [ClampLat EXCEPT !.neg = TRUE] ELSE lo

\* Web Mercator metres are counted in half pixels of zoom 18, the zoom sendPos
\* asks for: the world is 2 * 256 * 2^18 units wide and res(zoom) is
\* 2 * 2^(18 - zoom) units, so that the arithmetic of the box is exact.
SendZoom == 18
WorldUnits == 2 * 256 * 2^SendZoom

\* (lon * Math.PI / 180) * R, for whole degrees, rounded down to the unit
MercatorX(lon) ==
    (lon \div 45) * (WorldUnits \div 8) + ((lon % 45) * (WorldUnits \div 8)) \div 45

\* Math.log(Math.tan(Math.PI / 4 + (lat * Math.PI / 180) / 2)) * R at the
\* latitudes probed, rounded to the unit
MercatorYAbs(deg, frac) ==
    CASE deg = 0 /\ frac = 0 -> 0
      [] deg = 34 /\ frac = 0 -> 13493111
      [] deg = 45 /\ frac = 0 -> 18827387
      [] deg = 85 /\ frac = 0 -> 66889027
      [] deg = 85 /\ frac = 5112878 -> 67108864
      [] deg = 86 /\ frac = 0 -> 71660573
      [] deg = 89 /\ frac = 90000000 -> 150468930
      [] deg = 90 /\ frac = 0 -> 797461268
MercatorY(lat) == IF lat.neg THEN 0 - MercatorYAbs(lat.deg, lat.frac) ELSE MercatorYAbs(lat.deg, lat.frac)

\* mutant: the latitude is projected as it comes
lonLatToWebMercatorUnclamped(lon, lat) == <<MercatorX(lon), MercatorY(lat)>>

\* lonLatToWebMercator: [x, y]
lonLatToWebMercator(lon, lat) == <<MercatorX(lon), MercatorY(ClampedLat(lat))>>

\* res = worldMeters / (256 * 2 ** zoom)
Res(zoom) == WorldUnits \div (256 * 2^zoom)

\* esriWorldImageryStatic: the bbox [x - halfW, y - halfH, x + halfW, y + halfH]
esriWorldImageryStatic(lat, lon, zoom, w, h) ==
    LET pt == lonLatToWebMercator(lon, lat)
        halfW == (w * Res(zoom)) \div 2
        halfH == (h * Res(zoom)) \div 2
    IN <<pt[1] - halfW, pt[2] - halfH, pt[1] + halfW, pt[2] + halfH>>

BoxLats ==
    {Lat(FALSE, 0, 0), Lat(FALSE, 34, 0), Lat(TRUE, 34, 0), Lat(FALSE, 45, 0),
     Lat(FALSE, 85, 0), ClampLat, [ClampLat EXCEPT !.neg = TRUE], Lat(FALSE, 86, 0),
     Lat(FALSE, 89, 90000000), Lat(TRUE, 89, 90000000), Lat(FALSE, 90, 0)}
BoxLons == {-180, -118, -45, 0, 45, 181}
BoxZooms == {0, 17, SendZoom}
BoxWidths == {1, 900}
BoxHeights == {1, 600}

InitBox ==
    /\ build \in Builds
    /\ env = EnvKeys
    /\ tick = 1
    /\ cache = EmptyCache
    /\ req = [r \in Reqs |-> IdleReq]
    /\ \E lat \in BoxLats, lon \in BoxLons, zoom \in BoxZooms, w \in BoxWidths, h \in BoxHeights :
         probe = [stage |-> "input", lat |-> lat, lon |-> lon, zoom |-> zoom, w |-> w, h |-> h,
                  point |-> <<0, 0>>, bbox |-> <<0, 0, 0, 0>>]

\* one call of esriWorldImageryStatic
Export ==
    /\ probe.stage = "input"
    /\ probe' = [probe EXCEPT
                   !.stage = "done",
                   !.point = lonLatToWebMercator(probe.lon, probe.lat),
                   !.bbox = esriWorldImageryStatic(probe.lat, probe.lon, probe.zoom, probe.w, probe.h)]
    /\ UNCHANGED <<build, env, tick, cache, req>>

NextBox == Export

SpecBox == InitBox /\ [][NextBox]_vars

\* ===================================================================== claims
\* the age test of the handlers, written out for the claims
Age(p) == clock - p.ts

\* request r arrives in this step and passes the input gate with asset id a
Arrives(r, a) == req[r].pc = "idle" /\ req'[r].pc # "idle" /\ req'[r].assetId = a

\* C1: a request that arrives when the cache holds an entry for its asset
\* younger than the soft TTL is answered with that entry in the same step, and
\* the upstream adapter is not called for it, whatever the configuration is.
C1_SoftFreshServedFromCache ==
    [][\A r \in Reqs : \A a \in AssetIds :
         (Arrives(r, a) /\ cache[a].has /\ Age(cache[a]) < SoftTtl)
         => /\ req'[r].pc = "done"
            /\ req'[r].out = "pos"
            /\ req'[r].served = cache[a]
            /\ req'[r].adapter = "none"
            /\ cache' = cache]_vars

\* C1 witness: a soft-fresh entry was served although the provider
\* configuration is incomplete
C1_Witness ==
    \E r \in Reqs :
        /\ req[r].pc = "done" /\ req[r].branch = "soft" /\ req[r].out = "pos"
        /\ req[r].served.has /\ req[r].adapter = "none"
        /\ "SKYBITZ_USER" \notin env

\* latitude in [-90, 90] and longitude in [-180, 180]
OnGlobe(p) == p.lat >= -90 /\ p.lat <= 90 /\ p.lon >= -180 /\ p.lon <= 180

\* request r answers in this step
Answers(r) == req[r].pc # "done" /\ req'[r].pc = "done"

\* C2 as claimed: once a request that found no entry has stored and served the
\* adapter's position, every request for the asset that arrives within the
\* soft TTL of that entry's timestamp is answered at once (no adapter call)
\* with the same latitude and longitude.  (Stated for positions on the globe,
\* so that no violation rests on a stored position that is off it.)
C2_Original ==
    [][\A r1 \in Reqs : \A r2 \in Reqs : \A a \in AssetIds :
         (/\ req[r1].pc = "done" /\ req[r1].branch = "fresh" /\ ~req[r1].found
          /\ req[r1].assetId = a
          /\ Arrives(r2, a)
          /\ OnGlobe(req[r1].served) /\ OnGlobe(cache[a])
          /\ Age(req[r1].served) < SoftTtl)
         => /\ req'[r2].pc = "done"
            /\ req'[r2].out = "pos"
            /\ req'[r2].adapter = "none"
            /\ req'[r2].served.lat = req[r1].served.lat
            /\ req'[r2].served.lon = req[r1].served.lon]_vars

\* C2 as amended: the position of an Ok outcome is stored and served as it
\* came from the adapter; and a request for the asset that arrives while the
\* cache still holds that entry, younger than the soft TTL, is answered at
\* once with the same latitude and longitude, without an adapter call.
C2_StoredThenServedWhileHeld ==
    [][/\ \A r \in Reqs :
            (Answers(r) /\ req'[r].branch = "fresh")
            => /\ req'[r].out = "pos"
               /\ req'[r].adapter = "ok"
               /\ req'[r].served.has
               /\ cache'[req[r].assetId] = req'[r].served
               /\ (build = "kv" => req'[r].served = req[r].fresh)
       /\ \A r1 \in Reqs : \A r2 \in Reqs : \A a \in AssetIds :
            (/\ req[r1].pc = "done" /\ req[r1].branch = "fresh"
             /\ req[r1].assetId = a
             /\ Arrives(r2, a)
             /\ cache[a] = req[r1].served
             /\ Age(req[r1].served) < SoftTtl)
            => /\ req'[r2].pc = "done"
               /\ req'[r2].out = "pos"
               /\ req'[r2].adapter = "none"
               /\ req'[r2].served.lat = req[r1].served.lat
               /\ req'[r2].served.lon = req[r1].served.lon]_vars

\* C2 witness: a request that found no entry stored the adapter's position,
\* and a second request was served that same position from the cache
C2_Witness ==
    \E r1 \in Reqs : \E r2 \in Reqs :
        /\ req[r1].pc = "done" /\ req[r1].branch = "fresh" /\ ~req[r1].found
        /\ req[r2].pc = "done" /\ req[r2].branch = "soft"
        /\ req[r2].assetId = req[r1].assetId
        /\ req[r2].served = req[r1].served
        /\ cache[req[r1].assetId] = req[r1].served

\* the entry is older than the soft TTL and younger than the hard TTL
SoftStaleHardFresh(p) == p.has /\ Age(p) >= SoftTtl /\ Age(p) < MAX_STALE_MS

\* request r handles, in this step, an upstream call that ended in `how`
Handles(r, how) ==
    /\ req[r].pc \in {"fetch", "catch"}
    /\ req'[r].pc = "done"
    /\ req'[r].adapter = how

\* C3 as claimed: when the upstream call failed (rate limit or any other
\* failure) and the cache entry of the asset is older than the soft TTL and
\* younger than the hard TTL, the request is answered with that entry.
C3_Original ==
    [][\A r \in Reqs :
         (Handles(r, "throw") /\ SoftStaleHardFresh(cache[req[r].assetId]))
         => (req'[r].out = "pos" /\ req'[r].served = cache[req[r].assetId])]_vars

\* C4 as claimed: when the upstream call brought no usable fix, the request
\* is answered with the cache entry if the cache holds, at that moment, an
\* entry of the asset younger than the hard TTL, and with "no data" if not.
C4_Original ==
    [][\A r \in Reqs :
         Handles(r, "null")
         => IF cache[req[r].assetId].has /\ Age(cache[req[r].assetId]) < MAX_STALE_MS
            THEN req'[r].out = "pos" /\ req'[r].served = cache[req[r].assetId]
            ELSE req'[r].out = "nodata"]_vars

\* C5 as claimed: a position served after an upstream call that did not end
\* in Ok is younger than the hard TTL at the moment it is sent.
C5_Original ==
    [][\A r \in Reqs :
         ((Handles(r, "null") \/ Handles(r, "throw")) /\ req'[r].out = "pos")
         => (req'[r].served.has /\ Age(req'[r].served) < MAX_STALE_MS)]_vars

\* C6 as claimed: every stored position is on the globe.
C6_Original == \A a \in AssetIds : cache[a].has => OnGlobe(cache[a])

\* C7 as claimed: with a required configuration value absent, a request that
\* passed the input gate ends in a surfaced error: an error message is
\* actually sent, no position is served, no upstream call is made.
C7_Original ==
    \A r \in Reqs :
        (~EnvComplete(env) /\ req[r].pc = "done" /\ req[r].assetId # <<>>)
        => (req[r].out = "error" /\ req[r].sent /\ req[r].adapter = "none")

\* |x - y|
Dist(x, y) == IF x >= y THEN x - y ELSE y - x

Parsed(resp) == resp.net = "ok" /\ resp.status \in 200..299 /\ resp.body = "json"

\* the provider's error code, 0 when the answer carries none
CodeOf(resp) == IF resp.error.t = "number" THEN resp.error.v ELSE 0

\* C9 as claimed: an answer is taken for a rate limit exactly when it parses
\* and carries the error code 97; every other failure (other non-zero code,
\* non-success status, transport failure) is taken for "unavailable".
C9_Original ==
    probe.stage = "done"
    => /\ (probe.class = "RateLimited") <=> (Parsed(probe.resp) /\ CodeOf(probe.resp) = 97)
       /\ (probe.resp.net = "fail" \/ probe.resp.status \notin 200..299
           \/ (Parsed(probe.resp) /\ CodeOf(probe.resp) \notin {0, 97}))
          => probe.class = "Unavailable"

\* the record the adapter has to use: the first of a collection, the object
\* itself, or none
FirstRecord(gls) ==
    IF gls.kind = "object" THEN gls.items
    ELSE IF gls.kind = "array" /\ gls.items # <<>> THEN <<Head(gls.items)>>
    ELSE <<>>

\* C10 as claimed: for every answer with a success status and no error code
\* the adapter does not raise: it returns Ok when the first record (or the
\* single object) has a numeric latitude and a numeric longitude and NoData
\* otherwise, a body that is not JSON included.
C10_Original ==
    ( /\ probe.stage = "done"
      /\ probe.resp.net = "ok" /\ probe.resp.status \in 200..299
      /\ CodeOf(probe.resp) = 0 )
    => /\ probe.res.tag # "throw"
       /\ probe.class \in {"Ok", "NoData"}

\* C10, the part that holds: for an answer whose body parses and carries no
\* error code the adapter returns Ok, with the coordinates of the first record of a collection or of
\* the single object, exactly when that record has a numeric latitude and a
\* numeric longitude; otherwise (empty collection, no record, a coordinate
\* missing or not a number) it returns NoData; it never throws.
C10_FirstRecordOrNoData ==
    (probe.stage = "done" /\ Parsed(probe.resp) /\ CodeOf(probe.resp) = 0)
    => LET first == FirstRecord(probe.resp.gls)
           numeric == /\ first # <<>>
                      /\ first[1].latitude.t = "number"
                      /\ first[1].longitude.t = "number"
       IN /\ probe.res.tag # "throw"
          /\ numeric => /\ probe.class = "Ok"
                        /\ probe.res.pos.has
                        /\ probe.res.pos.lat = first[1].latitude.v
                        /\ probe.res.pos.lon = first[1].longitude.v
                        /\ probe.res.pos.ts = probe.ts
          /\ ~numeric => (probe.class = "NoData" /\ ~probe.res.pos.has)

\* C10 witness: a collection whose first record is a fix and whose second is
\* a different fix was answered with the first
C10_Witness ==
    /\ probe.stage = "done" /\ probe.class = "Ok"
    /\ probe.resp.gls.kind = "array" /\ Len(probe.resp.gls.items) = 2
    /\ probe.resp.gls.items[1] # probe.resp.gls.items[2]
    /\ probe.resp.gls.items[2].latitude.t = "number"
    /\ probe.resp.gls.items[2].longitude.t = "number"
    /\ probe.res.pos.lat = probe.resp.gls.items[1].latitude.v

\* the steps by which the handler of request r goes on after its upstream call
\* was issued
HandlerStep(r) ==
    \/ \E resp \in Responses : KvFetchReturn(r, resp)
    \/ KvSet(r)
    \/ KvCatch(r)
    \/ \E resp \in Responses : MemFetchReturn(r, resp)

\* the replies that tell the user no position is known
NoPositionReplies == {"nodata", "ratelimited", "error"}

\* C11: a request for a valid asset identifier that called the provider ends,
\* whatever the provider did, with a position or with a reply that no position
\* is known, never with an exception leaving the handler; and a handler that
\* has not ended can always take its next step.
C11_EndsInPositionOrNoData ==
    \A r \in Reqs :
        /\ (req[r].pc = "done" /\ req[r].adapter # "none")
           => \/ (req[r].out = "pos" /\ req[r].served.has)
              \/ (req[r].out \in NoPositionReplies /\ ~req[r].served.has)
        /\ InFlight(r) => ENABLED HandlerStep(r)

\* C11 witness: an upstream call that threw was answered with a reply, not a
\* position
C11_Witness ==
    \E r \in Reqs :
        /\ req[r].pc = "done" /\ req[r].adapter = "throw"
        /\ req[r].out \in NoPositionReplies

\* C12: writing the same position twice under the same key leaves the cache
\* as one write left it, and that is: the position under the key, every other
\* key as before.
C12_PutIdempotent ==
    (probe.stage = "twice")
    => /\ cache = probe.once
       /\ cache[probe.assetId] = probe.pos
       /\ \A a \in AssetIds \ {probe.assetId} : cache[a] = probe.before[a]

\* C12 witness: the second write found the key already holding an entry that
\* the first write had replaced
C12_Witness ==
    /\ probe.stage = "twice"
    /\ probe.before[probe.assetId].has
    /\ probe.before[probe.assetId] # probe.pos
    /\ cache[probe.assetId] = probe.pos

\* the latitude the box has to be computed from
ExpectedLat(lat) ==
    IF LatLess(ClampLat, lat) THEN ClampLat
    ELSE IF LatLess(lat, [ClampLat EXCEPT !.neg = TRUE]) THEN [ClampLat EXCEPT !.neg = TRUE]
    ELSE lat

\* C13: the box is the one of the latitude clamped to +-85.05112878 (a
\* latitude beyond the bound gives the box of the bound), its centre is the
\* projected point, its width is w * res(zoom) and its height h * res(zoom).
C13_BoxClampedCentredSized ==
    (probe.stage = "done")
    => LET b == probe.bbox
           e == ExpectedLat(probe.lat)
       IN /\ b = esriWorldImageryStatic(e, probe.lon, probe.zoom, probe.w, probe.h)
          /\ b[2] + b[4] = 2 * MercatorY(e)
          /\ b[1] + b[3] = 2 * probe.point[1]
          /\ b[2] + b[4] = 2 * probe.point[2]
          /\ b[3] - b[1] = probe.w * (WorldUnits \div (256 * 2^probe.zoom))
          /\ b[4] - b[2] = probe.h * (WorldUnits \div (256 * 2^probe.zoom))

\* C13 witness: the box of latitude 89.9 was computed, and it is centred on
\* the edge of the square world
C13_Witness ==
    /\ probe.stage = "done"
    /\ probe.lat = Lat(FALSE, 89, 90000000)
    /\ probe.bbox[2] + probe.bbox[4] = WorldUnits

\* request r of main.ts decides, in this step, what to answer after its
\* upstream call brought no new position
DecidesFallback(r) ==
    /\ build = "kv"
    /\ req[r].pc \in {"fetch", "catch"}
    /\ req'[r].pc = "done"
    /\ req'[r].adapter \in {"null", "throw"}

\* C14 as claimed: the position a request serves as a fallback is the entry
\* the cache holds when the request decides, and a request answers that no
\* position is known only if the cache then holds no entry younger than the
\* hard TTL, whatever other requests wrote while its upstream call was in
\* flight.
C14_Original ==
    [][\A r \in Reqs :
         DecidesFallback(r)
         => /\ (req'[r].out = "pos") => (req'[r].served = cache[req[r].assetId])
            /\ (req'[r].out # "pos") => ~HardFresh(cache[req[r].assetId], clock)]_vars

\* C15 as claimed: an entry is replaced only by a newer one: the timestamp
\* stored for an asset never decreases (and the entry is never removed).
C15_Original ==
    [][\A a \in AssetIds :
         cache[a].has => (cache'[a].has /\ cache'[a].ts >= cache[a].ts)]_vars

\* request r ends, in this step, a resolution whose upstream call returned a
\* position
EndsOk(r) ==
    /\ req[r].pc # "done"
    /\ req'[r].pc = "done"
    /\ req'[r].adapter = "ok"
    /\ req'[r].out = "pos"

\* C16: the cache changes only in a step in which a request whose upstream
\* call returned a position stores it, and then only under the key of the
\* asset of that request; every other step (soft-fresh hit, no data, rate
\* limit, failure, missing configuration, rejected input) leaves the whole
\* cache as it is; no entry is ever removed.
C16_OnlyOkWritesOwnKey ==
    [][/\ \A a \in AssetIds : cache[a].has => cache'[a].has
       /\ (cache' # cache)
          => \E r \in Reqs :
               /\ EndsOk(r)
               /\ cache'[req'[r].assetId] = req'[r].served
               /\ \A a \in AssetIds \ {req'[r].assetId} : cache'[a] = cache[a]]_vars

\* C16 witness: a position was fetched and stored for one asset while the
\* entry of another asset is the one the store held at the start
C16_Witness ==
    \E r \in Reqs :
        /\ req[r].pc = "done" /\ req[r].adapter = "ok"
        /\ cache[req[r].assetId] = req[r].served
        /\ cache[OtherAsset].has
        /\ cache[OtherAsset] # cache[req[r].assetId]

\* a valid asset identifier: 2 to 32 characters, the first alphanumeric, the
\* others alphanumeric, '_' or '-'
ValidAssetId(t) ==
    /\ Len(t) >= 2 /\ Len(t) <= 32
    /\ t[1] \in Upper \cup Lower \cup Digits
    /\ \A i \in 2..Len(t) : t[i] \in Upper \cup Lower \cup Digits \cup {"_", "-"}

\* the message text, surrounding white space removed as the handler removes
\* it, is empty, a command, or no valid asset identifier
RejectedText(text) ==
    LET t == Trim(text)
    IN t = <<>> \/ t[1] = "/" \/ ~ValidAssetId(t)

\* C17: a message whose text is rejected ends at the input gate: the handler
\* returns in the step the message arrives, without an asset id, without a
\* cache look-up, an upstream call or a cache write; and every key under
\* which the cache holds or receives an entry is a valid asset identifier.
C17_RejectedInputStopsAtGate ==
    [][/\ \A r \in Reqs : \A inp \in Inputs :
            (RejectedText(inp.text) /\ (KvReceive(r, inp) \/ MemReceive(r, inp)))
            => /\ req'[r].pc = "done"
               /\ req'[r].branch = "gate"
               /\ req'[r].out \in {"ignored", "hint"}
               /\ req'[r].assetId = <<>>
               /\ ~req'[r].found
               /\ req'[r].adapter = "none"
               /\ ~req'[r].served.has
               /\ cache' = cache
       /\ \A a \in AssetIds : (cache[a].has \/ cache'[a].has) => ValidAssetId(a)]_vars

\* C17 witness: a message stopped at the gate while the cache holds an entry
\* stored for an accepted one
C17_Witness ==
    \E r \in Reqs : \E a \in AssetIds :
        /\ req[r].pc = "done" /\ req[r].branch = "gate"
        /\ cache[a].has /\ cache[a].ts > 0

====
